---- MODULE Spec2Model ----
(***************************************************************************)
(* A model of the DFPlayer Mini driver (src/src/dfplayer/dfplayer.py).     *)
(*                                                                         *)
(* The driver talks to the module over a UART with fixed 10-byte frames.   *)
(* The model keeps the UART receive buffer, the record of what the         *)
(* current call did on the transport, the locals of the call in progress   *)
(* and the state of the busy line.  A command round-trip is split at the   *)
(* points where the device and the busy-line interrupt can interleave:     *)
(* after the write, after the settle delay, and between the two reads of   *)
(* a query getter.                                                         *)
(***************************************************************************)
EXTENDS Integers, Sequences, FiniteSets, TLC

VARIABLES
    busy_pin,     \* self.busy_pin is configured (truthy)
    pin_level,    \* level of the busy line, 0 or 1
    has_playing,  \* the attribute self._playing exists
    _playing,     \* self._playing (meaningful when has_playing)
    rx,           \* bytes waiting in the UART receive buffer
    pc,           \* position of the call in progress
    call,         \* the call in progress or last made: operation, frame locals,
                  \* and whether unread input was pending when it wrote (stale)
    log,          \* transport and delay events of that call, in order
    resp,         \* response_code, response_data of _send_command
    qresp,        \* response_code, response_data of a query getter
    send_ret,     \* what _send_command returned to its caller
    result        \* outcome of the call as its caller sees it

vars == <<busy_pin, pin_level, has_playing, _playing, rx, pc, call, log,
          resp, qresp, send_ret, result>>

(***************************************************************************)
(* Program constants.                                                      *)
(***************************************************************************)
DFPLAYER_BOOTUP_TIME_MS == 3000
DFPLAYER_SEND_DELAY_MS == 100
\* defined at line 12; no code of the driver refers to it
DFPLAYER_RETRIES == 5
DFPLAYER_MAX_VOLUME == 30
DFPLAYER_MAX_FOLDER == 99
DFPLAYER_MAX_MP3_FILE == 9999
DFPLAYER_FRAME_SIZE == 10
DFPLAYER_START == 126     \* 0x7e
DFPLAYER_VERSION == 255   \* 0xff
DFPLAYER_LEN == 6
DFPLAYER_NO_ACK == 0
DFPLAYER_ACK == 1
DFPLAYER_END == 239       \* 0xef

DFPLAYER_CMD_NEXT == 1
DFPLAYER_CMD_PREV == 2
DFPLAYER_CMD_VOLUME_INC == 4
DFPLAYER_CMD_VOLUME_DEC == 5
DFPLAYER_CMD_SET_VOLUME == 6
DFPLAYER_CMD_SET_EQUALIZER == 7
DFPLAYER_CMD_SET_PLAYBACK_MODE == 8
DFPLAYER_CMD_SET_SOURCE == 9
DFPLAYER_CMD_STANDBY_ENTER == 10
DFPLAYER_CMD_STANDBY_EXIT == 11
DFPLAYER_CMD_RESET == 12
DFPLAYER_CMD_PLAY == 13
DFPLAYER_CMD_PAUSE == 14
DFPLAYER_CMD_FILE == 15
DFPLAYER_CMD_PLAY_FROM_MP3 == 18          \* 0x12
DFPLAYER_CMD_GET_STATUS == 66             \* 0x42
DFPLAYER_CMD_GET_EQUALIZER == 68          \* 0x44
DFPLAYER_NOTIFY_DONE_SDCARD == 61         \* 0x3d
DFPLAYER_RESPONSE_ERROR == 64             \* 0x40
DFPLAYER_RESPONSE_OK == 65                \* 0x41
DFPLAYER_ERROR_BUSY == 0
DFPLAYER_ERROR_FRAME == 1
DFPLAYER_ERROR_FCS == 2
DFPLAYER_ERROR_NO_SUCH_FILE == 6
DFPLAYER_STATUS_STOPPED == 0
DFPLAYER_STATUS_PLAYING == 1
DFPLAYER_STATUS_PAUSED == 2

\* Python's None where the code holds an integer or None.
None == -1

(***************************************************************************)
(* Python integer operators on unbounded integers.                         *)
(***************************************************************************)
\* x & 0xFF (two's complement on negative x)
And0xFF(x) == x % 256

\* a faulty variant of Shr8: a shift that rounds a negative value toward zero
Shr8TowardZero(x) == IF x < 0 THEN -((-x) \div 256) ELSE x \div 256

\* x >> 8 (arithmetic shift: floor division)
Shr8(x) == x \div 256

(***************************************************************************)
(* _send_command: the frame.                                               *)
(***************************************************************************)
\* checksum as computed at lines 175-176, an unbounded (negative) integer
FrameChecksum(command, data_high, data_low) ==
    LET frame_check_init == -(DFPLAYER_VERSION + DFPLAYER_LEN)
    IN  frame_check_init - (command + DFPLAYER_ACK + data_low + data_high)

\* a faulty variant of Frame: the frame built with the no-acknowledgement flag
FrameNoAck(command, data_high, data_low) ==
    LET checksum  == FrameChecksum(command, data_high, data_low)
        frame     == <<DFPLAYER_START, DFPLAYER_VERSION, DFPLAYER_LEN, command,
                       DFPLAYER_NO_ACK, data_high, data_low, Shr8(checksum),
                       And0xFF(checksum), DFPLAYER_END>>
    IN  [i \in 1..Len(frame) |-> And0xFF(frame[i])]

\* the ten bytes handed to uart.write, lines 177-179
Frame(command, data_high, data_low) ==
    LET checksum  == FrameChecksum(command, data_high, data_low)
        high_byte == Shr8(checksum)
        low_byte  == And0xFF(checksum)
        frame     == <<DFPLAYER_START, DFPLAYER_VERSION, DFPLAYER_LEN, command,
                       DFPLAYER_ACK, data_high, data_low, high_byte, low_byte,
                       DFPLAYER_END>>
    IN  [i \in 1..Len(frame) |-> And0xFF(frame[i])]

\* a faulty variant of SettleDelay: one delay for every command
SettleDelayFlat(command) == DFPLAYER_SEND_DELAY_MS

\* the settle delay chosen at lines 186-193
SettleDelay(command) ==
    IF command \in {DFPLAYER_CMD_SET_SOURCE, DFPLAYER_CMD_SET_VOLUME} THEN 200
    ELSE IF command = DFPLAYER_CMD_RESET THEN DFPLAYER_BOOTUP_TIME_MS
    ELSE IF command \in {71, 72, 73, 78} THEN 500
    ELSE DFPLAYER_SEND_DELAY_MS

(***************************************************************************)
(* _read_data.                                                             *)
(***************************************************************************)
\* a faulty variant of UnpackH: the two bytes taken in little-endian order
UnpackLittleEndian(b5, b6) == b6 * 256 + b5

\* struct.unpack('>H', buf[5:7])[0]: bytes 5 and 6 as a big-endian 16-bit value
UnpackH(b5, b6) == b5 * 256 + b6

\* uart.read(DFPLAYER_FRAME_SIZE): up to ten bytes from the receive buffer
UartRead(buffer) ==
    SubSeq(buffer, 1, IF Len(buffer) < DFPLAYER_FRAME_SIZE
                      THEN Len(buffer) ELSE DFPLAYER_FRAME_SIZE)

\* a faulty variant of WellFormed: the END byte is not checked
WellFormedNoEnd(buf) ==
    /\ buf[1] = DFPLAYER_START
    /\ buf[2] = DFPLAYER_VERSION
    /\ buf[3] = DFPLAYER_LEN

\* the four constant fields checked at line 162 (buf[0], buf[1], buf[2], buf[9])
WellFormed(buf) ==
    /\ buf[1] = DFPLAYER_START
    /\ buf[2] = DFPLAYER_VERSION
    /\ buf[3] = DFPLAYER_LEN
    /\ buf[10] = DFPLAYER_END

\* _read_data on a receive buffer: what it returns or raises, the bytes it
\* took from the buffer, and the buffer it leaves
ReadData(buffer) ==
    IF Len(buffer) = 0
    THEN [kind |-> "none", code |-> None, data |-> None, buf |-> <<>>,
          rest |-> buffer]
    ELSE LET buf  == UartRead(buffer)
             rest == SubSeq(buffer, Len(buf) + 1, Len(buffer))
         IN  IF Len(buf) # DFPLAYER_FRAME_SIZE
             THEN [kind |-> "none", code |-> None, data |-> None,
                   buf |-> buf, rest |-> rest]
             ELSE IF WellFormed(buf)
             THEN [kind |-> "pair", code |-> buf[4],
                   data |-> UnpackH(buf[6], buf[7]),
                   buf |-> buf, rest |-> rest]
             ELSE [kind |-> "raise", code |-> None, data |-> None,
                   buf |-> buf, rest |-> rest]

(***************************************************************************)
(* _send_command: classification of the response, lines 197-209.           *)
(***************************************************************************)
\* a faulty variant of SendOutcome: the no-such-file error is not told apart
SendOutcomeNoFileCase(response_code, response_data) ==
    IF response_code = DFPLAYER_RESPONSE_OK
    THEN [ret |-> "True", msg |-> ""]
    ELSE IF response_code = DFPLAYER_RESPONSE_ERROR
    THEN IF response_data = DFPLAYER_ERROR_BUSY
         THEN [ret |-> "raise", msg |-> "DFPlayer is busy"]
         ELSE IF response_data = DFPLAYER_ERROR_FRAME
         THEN [ret |-> "raise", msg |-> "DFPlayer received incomplete frame"]
         ELSE IF response_data = DFPLAYER_ERROR_FCS
         THEN [ret |-> "raise",
               msg |-> "DFPlayer received corrupted frame (FCS mismatch)"]
         ELSE [ret |-> "raise", msg |-> "Unknown error"]
    ELSE [ret |-> "None", msg |-> ""]

\* what _send_command does with (response_code, response_data): return True,
\* raise RuntimeError(msg), or fall off the end of the function (return None)
SendOutcome(response_code, response_data) ==
    IF response_code = DFPLAYER_RESPONSE_OK
    THEN [ret |-> "True", msg |-> ""]
    ELSE IF response_code = DFPLAYER_RESPONSE_ERROR
    THEN IF response_data = DFPLAYER_ERROR_BUSY
         THEN [ret |-> "raise", msg |-> "DFPlayer is busy"]
         ELSE IF response_data = DFPLAYER_ERROR_FRAME
         THEN [ret |-> "raise", msg |-> "DFPlayer received incomplete frame"]
         ELSE IF response_data = DFPLAYER_ERROR_FCS
         THEN [ret |-> "raise",
               msg |-> "DFPlayer received corrupted frame (FCS mismatch)"]
         ELSE IF response_data = DFPLAYER_ERROR_NO_SUCH_FILE
         THEN [ret |-> "raise", msg |-> "No such file or folder"]
         ELSE [ret |-> "raise", msg |-> "Unknown error"]
    ELSE [ret |-> "None", msg |-> ""]

(***************************************************************************)
(* Outcomes of a call and events of its log.                               *)
(***************************************************************************)
Pending == [kind |-> "pending", exc |-> "", msg |-> "", val |-> None]
ReturnNone == [kind |-> "None", exc |-> "", msg |-> "", val |-> None]
ReturnBool(b) == [kind |-> "bool", exc |-> "", msg |-> "", val |-> IF b THEN 1 ELSE 0]
ReturnInt(v) == [kind |-> "int", exc |-> "", msg |-> "", val |-> v]
Raise(exc, msg, v) == [kind |-> "raise", exc |-> exc, msg |-> msg, val |-> v]

WriteEv(frame) == [ev |-> "write", bytes |-> frame, n |-> Len(frame)]
SleepEv(ms) == [ev |-> "sleep", bytes |-> <<>>, n |-> ms]
\* a _read_data call and the bytes uart.read handed it (none when any() was 0)
ReadEv(buf) == [ev |-> "read", bytes |-> buf, n |-> Len(buf)]

NoResp == [code |-> None, data |-> None]

\* the operations that read a second frame after _send_command has returned
QueryGetters == {"equalizer_settings", "status", "playing"}

(***************************************************************************)
(* Start of a call: validation and the write.                              *)
(***************************************************************************)
\* a public method raising ValueError before it reaches _send_command
Reject(op, a, b, msg) ==
    /\ pc = "idle"
    /\ call' = [op |-> op, a |-> a, b |-> b, command |-> None,
                data_high |-> None, data_low |-> None, stale |-> FALSE]
    /\ log' = <<>>
    /\ result' = Raise("ValueError", msg, None)
    /\ resp' = NoResp /\ qresp' = NoResp /\ send_ret' = "none"
    /\ UNCHANGED <<busy_pin, pin_level, has_playing, _playing, rx, pc>>

\* _send_command up to and including uart.write, lines 171-180
_send_command(op, a, b, command, data_high, data_low) ==
    /\ pc = "idle"
    /\ call' = [op |-> op, a |-> a, b |-> b, command |-> command,
                data_high |-> data_high, data_low |-> data_low,
                stale |-> (command <= 255 /\ rx # <<>>)]
    /\ resp' = NoResp /\ qresp' = NoResp /\ send_ret' = "none"
    /\ IF command > 255
       THEN /\ log' = <<>>
            /\ result' = Raise("ValueError", "Command must be a single byte", None)
            /\ pc' = "idle"
       ELSE /\ log' = <<WriteEv(Frame(command, data_high, data_low))>>
            /\ result' = Pending
            /\ pc' = "sleep"
    /\ UNCHANGED <<busy_pin, pin_level, has_playing, _playing, rx>>

\* the settle delay, lines 186-193
Settle ==
    /\ pc = "sleep"
    /\ log' = Append(log, SleepEv(SettleDelay(call.command)))
    /\ pc' = "read"
    /\ UNCHANGED <<busy_pin, pin_level, has_playing, _playing, rx, call,
                   resp, qresp, send_ret, result>>

\* what the caller of _send_command makes of its return value when it is not
\* a query getter: the wrappers discard it, a direct call gets it
AfterSend(op, ret) ==
    IF op = "_send_command" /\ ret = "True" THEN ReturnBool(TRUE) ELSE ReturnNone

\* the read and classification in _send_command, lines 195-209
ReadResponse ==
    /\ pc = "read"
    /\ LET r == ReadData(rx)
       IN  /\ rx' = r.rest
           /\ log' = Append(log, ReadEv(r.buf))
           /\ IF r.kind = "raise"
              THEN /\ resp' = NoResp
                   /\ send_ret' = "raise"
                   /\ result' = Raise("RuntimeError", "Invalid frame received", None)
                   /\ pc' = "idle"
              ELSE LET o == SendOutcome(r.code, r.data)
                   IN  /\ resp' = [code |-> r.code, data |-> r.data]
                       /\ send_ret' = o.ret
                       /\ IF o.ret = "raise"
                          THEN /\ result' = Raise("RuntimeError", o.msg, None)
                               /\ pc' = "idle"
                          ELSE IF call.op \in QueryGetters
                          THEN /\ result' = Pending
                               /\ pc' = "query_read"
                          ELSE /\ result' = AfterSend(call.op, o.ret)
                               /\ pc' = "idle"
    /\ UNCHANGED <<busy_pin, pin_level, has_playing, _playing, call, qresp>>

\* status: the PlayerStatus for response_data, lines 314-321 (None otherwise)
StatusOf(response_data) ==
    IF response_data = DFPLAYER_STATUS_STOPPED THEN 0
    ELSE IF response_data = DFPLAYER_STATUS_PLAYING THEN 1
    ELSE IF response_data = DFPLAYER_STATUS_PAUSED THEN 2
    ELSE None

\* what a query getter returns or raises for the frame of its own read:
\* equalizer_settings lines 232-234, status lines 311-321, playing line 152
QueryOutcome(op, command, response_code, response_data) ==
    IF response_code # command
    THEN IF op = "equalizer_settings"
         THEN Raise("RuntimeError", "Invalid response received", None)
         ELSE Raise("RuntimeError", "Invalid response code received", response_code)
    ELSE IF op = "equalizer_settings" THEN ReturnInt(response_data)
    ELSE IF op = "status"
         THEN IF StatusOf(response_data) = None THEN ReturnNone
              ELSE ReturnInt(StatusOf(response_data))
    ELSE ReturnBool(StatusOf(response_data) = 1)

\* the getter's own _read_data after _send_command returned, lines 231 and 310
QueryRead ==
    /\ pc = "query_read"
    /\ LET r == ReadData(rx)
       IN  /\ rx' = r.rest
           /\ log' = Append(log, ReadEv(r.buf))
           /\ IF r.kind = "raise"
              THEN /\ qresp' = NoResp
                   /\ result' = Raise("RuntimeError", "Invalid frame received", None)
              ELSE /\ qresp' = [code |-> r.code, data |-> r.data]
                   /\ result' = QueryOutcome(call.op, call.command, r.code, r.data)
    /\ pc' = "idle"
    /\ UNCHANGED <<busy_pin, pin_level, has_playing, _playing, call, resp, send_ret>>

(***************************************************************************)
(* The public operations.                                                  *)
(***************************************************************************)
reset == _send_command("reset", None, None, DFPLAYER_CMD_RESET, 0, 0)

next_track == _send_command("next_track", None, None, DFPLAYER_CMD_NEXT, 0, 0)

previous_track == _send_command("previous_track", None, None, DFPLAYER_CMD_PREV, 0, 0)

play == _send_command("play", None, None, DFPLAYER_CMD_PLAY, 0, 0)

pause == _send_command("pause", None, None, DFPLAYER_CMD_PAUSE, 0, 0)

increase_volume ==
    _send_command("increase_volume", None, None, DFPLAYER_CMD_VOLUME_INC, 0, 0)

decrease_volume ==
    _send_command("decrease_volume", None, None, DFPLAYER_CMD_VOLUME_DEC, 0, 0)

\* the equalizer_settings getter: the query is sent, QueryRead follows
equalizer_settings ==
    _send_command("equalizer_settings", None, None, DFPLAYER_CMD_GET_EQUALIZER, 0, 0)

equalizer_settings_setter(value) ==
    IF value < 0 \/ value > 5
    THEN Reject("equalizer_settings_setter", value, None,
                "Equalizer mode must be between 0 and 5")
    ELSE _send_command("equalizer_settings_setter", value, None,
                       DFPLAYER_CMD_SET_EQUALIZER, 0, value)

\* the volume getter is `pass`: it returns None and touches nothing else
volume ==
    /\ pc = "idle"
    /\ call' = [op |-> "volume", a |-> None, b |-> None, command |-> None,
                data_high |-> None, data_low |-> None, stale |-> FALSE]
    /\ log' = <<>>
    /\ result' = ReturnNone
    /\ resp' = NoResp /\ qresp' = NoResp /\ send_ret' = "none"
    /\ UNCHANGED <<busy_pin, pin_level, has_playing, _playing, rx, pc>>

\* a faulty variant of VolumeLevel: the level rounded to nearest instead of truncated
VolumeLevelRounded(value) == (value * DFPLAYER_MAX_VOLUME + 50) \div 100

\* int(value / 100 * DFPLAYER_MAX_VOLUME) for an integer value in 0..100.  The
\* source computes it in floating point; in IEEE double and single precision
\* the result is the integer part of value * 30 / 100 for each of 0..100.
VolumeLevel(value) == (value * DFPLAYER_MAX_VOLUME) \div 100

\* a faulty variant of volume_setter: the upper limit is off by one (101 accepted)
volume_setter_limit_101(value) ==
    IF value < 0 \/ value > 101
    THEN Reject("volume_setter", value, None, "Volume must be between 0 and 100")
    ELSE _send_command("volume_setter", value, None,
                       DFPLAYER_CMD_SET_VOLUME, 0, (value * DFPLAYER_MAX_VOLUME) \div 100)

volume_setter(value) ==
    IF value < 0 \/ value > 100
    THEN Reject("volume_setter", value, None, "Volume must be between 0 and 100")
    ELSE _send_command("volume_setter", value, None,
                       DFPLAYER_CMD_SET_VOLUME, 0, VolumeLevel(value))

\* a faulty variant of play_from_mp3_folder: high byte first
play_from_mp3_folder_swapped(track_number) ==
    IF track_number < 0 \/ track_number > DFPLAYER_MAX_MP3_FILE
    THEN Reject("play_from_mp3_folder", track_number, None,
                "Track number must be between 0 and 9999")
    ELSE _send_command("play_from_mp3_folder", track_number, None,
                       DFPLAYER_CMD_PLAY_FROM_MP3,
                       Shr8(track_number), And0xFF(track_number))

play_from_mp3_folder(track_number) ==
    IF track_number < 0 \/ track_number > DFPLAYER_MAX_MP3_FILE
    THEN Reject("play_from_mp3_folder", track_number, None,
                "Track number must be between 0 and 9999")
    ELSE _send_command("play_from_mp3_folder", track_number, None,
                       DFPLAYER_CMD_PLAY_FROM_MP3,
                       And0xFF(track_number), Shr8(track_number))

play_track(folder, track) ==
    IF folder < 0 \/ folder > DFPLAYER_MAX_FOLDER
    THEN Reject("play_track", folder, track,
                "Folder number must be between 0 and 99")
    ELSE IF track < 0 \/ track > DFPLAYER_MAX_MP3_FILE
    THEN Reject("play_track", folder, track,
                "Track number must be between 0 and 9999")
    ELSE _send_command("play_track", folder, track, DFPLAYER_CMD_FILE, folder, track)

set_playback_mode(mode) ==
    IF mode < 0 \/ mode > 1
    THEN Reject("set_playback_mode", mode, None, "Playback mode must be 0 or 1")
    ELSE _send_command("set_playback_mode", mode, None,
                       DFPLAYER_CMD_SET_PLAYBACK_MODE, 0, mode)

set_playback_source(source) ==
    IF source < 0 \/ source > 4
    THEN Reject("set_playback_source", source, None,
                "Playback source must be between 0 and 4")
    ELSE _send_command("set_playback_source", source, None,
                       DFPLAYER_CMD_SET_SOURCE, 0, source)

\* enabled is 1 for True, 0 for False
set_standby(enabled) ==
    IF enabled = 1
    THEN _send_command("set_standby", enabled, None, DFPLAYER_CMD_STANDBY_ENTER, 0, 0)
    ELSE _send_command("set_standby", enabled, None, DFPLAYER_CMD_STANDBY_EXIT, 0, 0)

\* the status getter: the query is sent, QueryRead follows
status == _send_command("status", None, None, DFPLAYER_CMD_GET_STATUS, 0, 0)

\* the playing getter, lines 147-152: with a busy pin it returns self._playing
\* (AttributeError while no edge has set it), without one it reads status
playing ==
    IF busy_pin
    THEN /\ pc = "idle"
         /\ call' = [op |-> "playing", a |-> None, b |-> None, command |-> None,
                     data_high |-> None, data_low |-> None, stale |-> FALSE]
         /\ log' = <<>>
         /\ result' = IF has_playing THEN ReturnBool(_playing)
                      ELSE Raise("AttributeError", "_playing", None)
         /\ resp' = NoResp /\ qresp' = NoResp /\ send_ret' = "none"
         /\ UNCHANGED <<busy_pin, pin_level, has_playing, _playing, rx, pc>>
    ELSE _send_command("playing", None, None, DFPLAYER_CMD_GET_STATUS, 0, 0)

\* _send_command called directly with a command and two data values
SendRaw(command, data_high, data_low) ==
    _send_command("_send_command", None, None, command, data_high, data_low)

(***************************************************************************)
(* The busy line.                                                          *)
(***************************************************************************)
\* a faulty variant of _on_busy_pin_change: the flag follows a high line
_on_busy_pin_change_inverted ==
    /\ busy_pin
    /\ pin_level' = 1 - pin_level
    /\ has_playing' = TRUE
    /\ _playing' = (pin_level' = 1)
    /\ UNCHANGED <<busy_pin, rx, pc, call, log, resp, qresp, send_ret, result>>

\* a faulty variant of _on_busy_pin_change: the handler empties the UART
_on_busy_pin_change_draining ==
    /\ busy_pin
    /\ pin_level' = 1 - pin_level
    /\ has_playing' = TRUE
    /\ _playing' = (pin_level' = 0)
    /\ rx' = <<>>
    /\ UNCHANGED <<busy_pin, pc, call, log, resp, qresp, send_ret, result>>

\* an edge on the busy line runs the handler registered at line 141
_on_busy_pin_change ==
    /\ busy_pin
    /\ pin_level' = 1 - pin_level
    /\ has_playing' = TRUE
    /\ _playing' = (pin_level' = 0)
    /\ UNCHANGED <<busy_pin, rx, pc, call, log, resp, qresp, send_ret, result>>

(***************************************************************************)
(* The device end of the serial link.                                      *)
(***************************************************************************)
\* a frame as the DFPlayer Mini sends it: code, 16-bit data, its checksum
DeviceFrame(code, data) ==
    LET sum == DFPLAYER_VERSION + DFPLAYER_LEN + code + DFPLAYER_NO_ACK
               + (data \div 256) + (data % 256)
        chk == (-sum) % 65536
    IN  <<DFPLAYER_START, DFPLAYER_VERSION, DFPLAYER_LEN, code, DFPLAYER_NO_ACK,
          data \div 256, data % 256, chk \div 256, chk % 256, DFPLAYER_END>>

\* bytes arrive in the receive buffer while it has room for them
Receive(chunk, capacity) ==
    /\ Len(rx) + Len(chunk) <= capacity
    /\ rx' = rx \o chunk
    /\ UNCHANGED <<busy_pin, pin_level, has_playing, _playing, pc, call, log,
                   resp, qresp, send_ret, result>>

(***************************************************************************)
(* Bounds and the inputs explored.                                         *)
(***************************************************************************)
\* frames the receive buffer holds before further bytes are dropped
MaxRxFrames == 2

RxCapacity == MaxRxFrames * DFPLAYER_FRAME_SIZE

\* arguments of the range-checked operations: the last accepted value and
\* the first rejected one
VolumeArgs == {50, 101}
EqualizerArgs == {5, 6}
Mp3Args == {9999, 10000}
FolderArgs == {99, 100}
TrackArgs == {256, 10000}
ModeArgs == {1, 2}
SourceArgs == {4, 5}

\* the frames the device sends: acknowledgement, errors, query replies and
\* a track-finished notification
DeviceFrames ==
    {DeviceFrame(DFPLAYER_RESPONSE_OK, 0),
     DeviceFrame(DFPLAYER_RESPONSE_ERROR, DFPLAYER_ERROR_BUSY),
     DeviceFrame(DFPLAYER_CMD_GET_STATUS, DFPLAYER_STATUS_PLAYING),
     DeviceFrame(DFPLAYER_CMD_GET_EQUALIZER, 3),
     DeviceFrame(DFPLAYER_NOTIFY_DONE_SDCARD, 1)}

(***************************************************************************)
(* The driver with its device: any sequence of public operations.          *)
(***************************************************************************)
\* __init__, lines 135-141: nothing has been sent, _playing is not yet set
Init ==
    /\ busy_pin \in BOOLEAN
    /\ pin_level \in (IF busy_pin THEN {0, 1} ELSE {1})
    /\ has_playing = FALSE
    /\ _playing = FALSE
    /\ rx = <<>>
    /\ pc = "idle"
    /\ call = [op |-> "__init__", a |-> None, b |-> None, command |-> None,
               data_high |-> None, data_low |-> None, stale |-> FALSE]
    /\ log = <<>>
    /\ resp = NoResp
    /\ qresp = NoResp
    /\ send_ret = "none"
    /\ result = ReturnNone

DeviceSend == \E f \in DeviceFrames : Receive(f, RxCapacity)

Next ==
    \/ reset
    \/ next_track
    \/ previous_track
    \/ play
    \/ pause
    \/ increase_volume
    \/ decrease_volume
    \/ equalizer_settings
    \/ \E v \in EqualizerArgs : equalizer_settings_setter(v)
    \/ volume
    \/ \E v \in VolumeArgs : volume_setter(v)
    \/ \E t \in Mp3Args : play_from_mp3_folder(t)
    \/ \E f \in FolderArgs : \E t \in TrackArgs : play_track(f, t)
    \/ \E m \in ModeArgs : set_playback_mode(m)
    \/ \E s \in SourceArgs : set_playback_source(s)
    \/ \E e \in {0, 1} : set_standby(e)
    \/ status
    \/ playing
    \/ Settle
    \/ ReadResponse
    \/ QueryRead
    \/ _on_busy_pin_change
    \/ DeviceSend

Spec == Init /\ [][Next]_vars

(***************************************************************************)
(* The frame codec over wide inputs: the first call after construction,    *)
(* for every argument, with the transmit line optionally wired back to the *)
(* receive line so that the driver reads the frame it wrote.               *)
(***************************************************************************)
\* command values of a direct _send_command call: every byte, and 256
RawCommands == 0..256

\* data_high and data_low values of a direct _send_command call
RawData == {0, 1, 15, 127, 128, 255}

WideVolumeArgs == -1..101
WideEqualizerArgs == -1..6
WideMp3Args == -1..10000
WideFolderArgs == {-1, 0, 1, 98, 99, 100}
WideTrackArgs == {-1, 0, 1, 255, 256, 9998, 9999, 10000}
WideModeArgs == -1..4
WideSourceArgs == -1..5

\* no call has been made on the driver yet
FirstCall == call.op = "__init__"

\* the frame just written comes back on the receive line
Loopback ==
    /\ pc = "sleep"
    /\ rx = <<>>
    /\ Receive(log[1].bytes, RxCapacity)

NextCodec ==
    \/ FirstCall /\ \E c \in RawCommands : \E h \in RawData : \E l \in RawData :
                        SendRaw(c, h, l)
    \/ FirstCall /\ \E v \in WideEqualizerArgs : equalizer_settings_setter(v)
    \/ FirstCall /\ \E v \in WideVolumeArgs : volume_setter(v)
    \/ FirstCall /\ \E t \in WideMp3Args : play_from_mp3_folder(t)
    \/ FirstCall /\ \E f \in WideFolderArgs : \E t \in WideTrackArgs : play_track(f, t)
    \/ FirstCall /\ \E m \in WideModeArgs : set_playback_mode(m)
    \/ FirstCall /\ \E s \in WideSourceArgs : set_playback_source(s)
    \/ Loopback
    \/ Settle
    \/ ReadResponse

SpecCodec == Init /\ [][NextCodec]_vars

(***************************************************************************)
(* The response interpreter over wide inputs: a few operations against a   *)
(* device line that delivers well-formed frames of every class, frames     *)
(* with one constant field damaged, and truncated frames.  The line        *)
(* delivers into room for one frame at a time.                             *)
(***************************************************************************)
\* data values of the device's error frames: the four named errors, an
\* unnamed one, and one with the high data byte set
WideErrorData == {DFPLAYER_ERROR_BUSY, DFPLAYER_ERROR_FRAME, DFPLAYER_ERROR_FCS,
                  DFPLAYER_ERROR_NO_SUCH_FILE, 5, 256}

WellFormedFrames ==
    {DeviceFrame(DFPLAYER_RESPONSE_OK, 0)}
    \cup {DeviceFrame(DFPLAYER_RESPONSE_ERROR, d) : d \in WideErrorData}
    \cup {DeviceFrame(DFPLAYER_CMD_GET_STATUS, d) : d \in 0..3}
    \cup {DeviceFrame(DFPLAYER_CMD_GET_EQUALIZER, 3),
          DeviceFrame(DFPLAYER_NOTIFY_DONE_SDCARD, 1)}

\* positions (1-based) of START, VERSION, LENGTH and END in a frame
ConstantFields == {1, 2, 3, 10}

\* frame f with the byte at position i replaced by v
Damage(f, i, v) == [f EXCEPT ![i] = v]

\* acknowledgement and status frames with one constant field off by one
DamagedFrames ==
    {Damage(f, i, f[i] - 1) :
        f \in {DeviceFrame(DFPLAYER_RESPONSE_OK, 0),
               DeviceFrame(DFPLAYER_CMD_GET_STATUS, DFPLAYER_STATUS_PLAYING)},
        i \in ConstantFields}

\* lengths of the truncated frames the line delivers
TruncatedLengths == {5, 9}

TruncatedFrames ==
    {SubSeq(DeviceFrame(DFPLAYER_RESPONSE_OK, 0), 1, n) : n \in TruncatedLengths}

DeviceSendAny ==
    \E f \in WellFormedFrames \cup DamagedFrames \cup TruncatedFrames :
        Receive(f, DFPLAYER_FRAME_SIZE)

NextDevice ==
    \/ play
    \/ \E v \in {50} : volume_setter(v)
    \/ equalizer_settings
    \/ status
    \/ playing
    \/ Settle
    \/ ReadResponse
    \/ QueryRead
    \/ _on_busy_pin_change
    \/ DeviceSendAny

SpecDevice == Init /\ [][NextDevice]_vars

(***************************************************************************)
(* One command call with the busy line toggling while it is in progress:   *)
(* the handler of line 141 runs between the call's own steps.              *)
(***************************************************************************)
InCall == pc # "idle"

NextInterrupt ==
    \/ FirstCall /\ play
    \/ FirstCall /\ status
    \/ Settle
    \/ ReadResponse
    \/ QueryRead
    \/ InCall /\ _on_busy_pin_change
    \/ DeviceSend

SpecInterrupt == Init /\ [][NextInterrupt]_vars

(***************************************************************************)
(* Properties.                                                             *)
(***************************************************************************)
IsByte(x) == x \in 0..255

\* the call in progress or last made wrote a frame
Wrote == Len(log) >= 1 /\ log[1].ev = "write"

\* the frame that call wrote
Written == log[1].bytes

\* _send_command of that call has read its response (or found none)
HasRead == Len(log) >= 3 /\ log[3].ev = "read"

\* C1: for command, data_high and data_low in 0..255 the frame written by
\* _send_command carries in bytes 7-8 a big-endian 16-bit checksum with
\* (0xFF + 0x06 + command + 0x01 + data_high + data_low + checksum) mod 65536 = 0.
C1_ChecksumNegatesSum ==
    (Wrote /\ IsByte(call.command) /\ IsByte(call.data_high) /\ IsByte(call.data_low))
    => /\ IsByte(Written[8]) /\ IsByte(Written[9])
       /\ (255 + 6 + call.command + 1 + call.data_high + call.data_low
           + (Written[8] * 256 + Written[9])) % 65536 = 0

C1_Witness ==
    /\ Wrote
    /\ call.op = "_send_command"
    /\ call.command = 255 /\ call.data_high = 255 /\ call.data_low = 255
    /\ Written[8] = 251 /\ Written[9] = 253

\* C2: every write to the transport is one 10-byte frame with byte 0 = 0x7E,
\* byte 1 = 0xFF, byte 2 = 0x06, byte 4 = 0x01 and byte 9 = 0xEF; byte 4 is
\* never the no-acknowledgement value 0x00.
C2_EveryWriteIsAnAckFrame ==
    \A i \in 1..Len(log) :
        log[i].ev = "write"
        => /\ i = 1
           /\ Len(log[i].bytes) = 10
           /\ \A k \in 1..10 : IsByte(log[i].bytes[k])
           /\ log[i].bytes[1] = 126
           /\ log[i].bytes[2] = 255
           /\ log[i].bytes[3] = 6
           /\ log[i].bytes[5] = 1
           /\ log[i].bytes[5] # 0
           /\ log[i].bytes[10] = 239

C2_Witness ==
    /\ pc = "idle"
    /\ call.op = "play_track" /\ call.a = 99 /\ call.b = 256
    /\ Wrote
    /\ HasRead

\* C3: for command, data_high and data_low in 0..255, _read_data fed the ten
\* bytes _send_command wrote yields code = command and
\* data = data_high * 256 + data_low, never "no data" or a malformed frame.
C3_RoundTrip ==
    (/\ Wrote /\ HasRead
     /\ log[3].bytes = Written
     /\ IsByte(call.command) /\ IsByte(call.data_high) /\ IsByte(call.data_low))
    => /\ resp.code = call.command
       /\ resp.data = call.data_high * 256 + call.data_low
       /\ resp.code # None
       /\ result.msg # "Invalid frame received"

C3_Witness ==
    /\ Wrote /\ HasRead
    /\ log[3].bytes = Written
    /\ call.command = 255 /\ call.data_high = 128 /\ call.data_low = 1
    /\ resp = [code |-> 255, data |-> 32769]

\* the error kind the claim names for a data value of an error frame
C4_KindOf(data) ==
    IF data = 0 THEN "DFPlayer is busy"
    ELSE IF data = 1 THEN "DFPlayer received incomplete frame"
    ELSE IF data = 2 THEN "DFPlayer received corrupted frame (FCS mismatch)"
    ELSE IF data = 6 THEN "No such file or folder"
    ELSE "Unknown error"

\* C4: a response frame with code 0x41 makes the command report success; one
\* with code 0x40 makes the call fail with the error kind of its data field
\* (0 busy, 1 incomplete frame, 2 checksum mismatch, 6 no such file, anything
\* else unknown), and the five kinds are pairwise distinct.
C4_ResponseClassification ==
    /\ (HasRead /\ resp.code = 65)
       => /\ send_ret = "True"
          /\ (call.op \notin QueryGetters => pc = "idle" /\ result.kind = "None")
          /\ (call.op \in QueryGetters /\ Len(log) = 3 => pc = "query_read")
    /\ (HasRead /\ resp.code = 64)
       => /\ pc = "idle"
          /\ Len(log) = 3
          /\ result = Raise("RuntimeError", C4_KindOf(resp.data), None)
    /\ Cardinality({SendOutcome(64, d).msg : d \in {0, 1, 2, 6, 5}}) = 5

C4_Witness ==
    /\ HasRead
    /\ resp = [code |-> 64, data |-> 6]
    /\ result.msg = "No such file or folder"

\* C5: a query (equalizer_settings, status) whose first frame read after the
\* query was written is well formed with code = the query command returns the
\* value in that frame's data field; the frame is not discarded and the call
\* does not fail.
C5_QueryReturnsFirstFrame ==
    (/\ call.op \in {"equalizer_settings", "status"}
     /\ pc = "idle"
     /\ HasRead
     /\ resp.code = call.command)
    => /\ result.kind = "int"
       /\ result.val = resp.data

\* C6: a response frame whose code is neither 0x41, nor 0x40, nor the query
\* command awaited makes the call fail; the call never returns normally.
C6_UnexpectedCodeFails ==
    (/\ pc = "idle"
     /\ HasRead
     /\ resp.code # None
     /\ resp.code \notin {65, 64}
     /\ ~(call.op \in QueryGetters /\ resp.code = call.command))
    => result.kind = "raise"

\* C7: _read_data gives "no data" only when zero bytes were available; bytes
\* that do not total ten give a failure the caller can tell apart from it.
C7_NoDataOnlyWhenEmpty ==
    \A i \in 1..Len(log) :
        (/\ log[i].ev = "read"
         /\ IF i = 3 THEN resp = NoResp /\ send_ret # "raise"
                     ELSE qresp = NoResp /\ result.msg # "Invalid frame received")
        => log[i].n = 0

\* a ten-byte buffer with a constant field that differs from its constant
C8_Damaged(buf) ==
    /\ Len(buf) = 10
    /\ buf[1] # 126 \/ buf[2] # 255 \/ buf[3] # 6 \/ buf[10] # 239

\* C8: _read_data on a ten-byte buffer in which START, VERSION, LENGTH or END
\* differs from its constant fails with a malformed-frame error and returns
\* no (code, data) pair; the command that read it does not report success.
C8_DamagedFrameRaises ==
    \A i \in 1..Len(log) :
        (log[i].ev = "read" /\ C8_Damaged(log[i].bytes))
        => /\ i = Len(log)
           /\ pc = "idle"
           /\ result = Raise("RuntimeError", "Invalid frame received", None)
           /\ (i = 3 => resp = NoResp /\ send_ret = "raise")
           /\ (i = 4 => qresp = NoResp)

C8_Witness ==
    /\ HasRead
    /\ Len(log[3].bytes) = 10
    /\ log[3].bytes[1] = 125
    /\ log[3].bytes[4] = 65
    /\ result.kind = "raise"

\* the arguments the claim calls out of range, per range-checked operation
C9_OutOfRange(op, a, b) ==
    \/ op = "volume_setter" /\ a \notin 0..100
    \/ op = "equalizer_settings_setter" /\ a \notin 0..5
    \/ op = "play_track" /\ (a \notin 0..99 \/ b \notin 0..9999)
    \/ op = "play_from_mp3_folder" /\ a \notin 0..9999
    \/ op = "set_playback_source" /\ a \notin 0..4
    \/ op = "set_playback_mode" /\ a \notin 0..3

\* C9: an out-of-range argument of a range-checked operation makes the call
\* fail with a validation error before any I/O: nothing is written, no delay
\* is taken, nothing is read.  Volume 101 and folder 100 are rejected; volume
\* 100, folder 99 and track 9999 are accepted.
C9_ValidationBeforeIO ==
    /\ C9_OutOfRange(call.op, call.a, call.b)
       => /\ pc = "idle"
          /\ result.kind = "raise" /\ result.exc = "ValueError"
          /\ log = <<>>
    /\ (call.op = "volume_setter" /\ call.a = 100) => Wrote
    /\ (call.op = "play_track" /\ call.a = 99 /\ call.b = 9999) => Wrote
    /\ (call.op = "play_from_mp3_folder" /\ call.a = 9999) => Wrote

C9_Witness ==
    /\ call.op = "volume_setter" /\ call.a = 101
    /\ result.exc = "ValueError"
    /\ log = <<>>

\* C10: for p in 0..100 the volume setter writes a frame with command 0x06,
\* DATA_HIGH 0x00 and DATA_LOW = floor(p * 30 / 100); the level is within
\* 0..30, non-decreasing in p, 0 for p = 0, 15 for p = 50 and 30 for p = 100.
C10_VolumeMapping ==
    /\ (call.op = "volume_setter" /\ call.a \in 0..100)
       => /\ Wrote
          /\ Written[4] = 6
          /\ Written[6] = 0
          /\ Written[7] = (call.a * 30) \div 100
          /\ Written[7] \in 0..30
          /\ (call.a = 0 => Written[7] = 0)
          /\ (call.a = 50 => Written[7] = 15)
          /\ (call.a = 100 => Written[7] = 30)
    /\ \A p \in 0..99 : VolumeLevel(p) <= VolumeLevel(p + 1)

C10_Witness ==
    /\ call.op = "volume_setter" /\ call.a = 50
    /\ Wrote
    /\ Written[7] = 15

\* the write events of the call's log
WriteEvents == {i \in 1..Len(log) : log[i].ev = "write"}

\* the read events of the call's log
ReadEvents == {i \in 1..Len(log) : log[i].ev = "read"}

\* C11: when no bytes are available after the settle window the command is
\* retried, up to DFPLAYER_RETRIES = 5 attempts, and if every attempt sees
\* "no data" the call fails with a timeout; no command call returns normally
\* without having read a response.
C11_RetryThenTimeout ==
    /\ (pc = "idle" /\ Wrote /\ result.kind # "raise")
       => (resp.code # None \/ qresp.code # None)
    /\ (pc = "idle" /\ Wrote /\ \A i \in ReadEvents : log[i].n = 0)
       => /\ result.kind = "raise"
          /\ Cardinality(WriteEvents) = DFPLAYER_RETRIES

\* C12: with the busy line configured, once an edge has been seen, playing
\* returns TRUE exactly when the line was low at the most recent edge, and
\* the call does no transport I/O.
C12_PlayingFollowsLastEdge ==
    [][(/\ busy_pin /\ has_playing
        /\ call'.op = "playing"
        /\ <<call, result, log>>' # <<call, result, log>>)
       => (/\ result' = ReturnBool(pin_level = 0)
           /\ log' = <<>>
           /\ rx' = rx
           /\ pc' = "idle")]_vars

C12_Witness ==
    /\ busy_pin /\ has_playing /\ _playing /\ pin_level = 0
    /\ call.op = "playing"
    /\ result = ReturnBool(TRUE)
    /\ rx # <<>>

\* C17: the busy-line edge handler may run at any point of a command call;
\* it changes only the playing flag, does no I/O, and leaves the call in
\* progress and its codec state as they were.
C17_EdgeTouchesOnlyTheFlag ==
    [][(pin_level' # pin_level)
       => (/\ has_playing' /\ _playing' = (pin_level' = 0)
           /\ UNCHANGED <<busy_pin, rx, pc, call, log, resp, qresp,
                          send_ret, result>>)]_vars

\* the handler ran while a play command was in progress, and the command
\* then took its acknowledgement
C17_Witness ==
    /\ busy_pin /\ has_playing
    /\ pc = "idle"
    /\ call.op = "play"
    /\ HasRead
    /\ resp.code = DFPLAYER_RESPONSE_OK
    /\ result = ReturnNone

\* the three data values the device reports for its playback state
PlayerStatusData ==
    {DFPLAYER_STATUS_STOPPED, DFPLAYER_STATUS_PLAYING, DFPLAYER_STATUS_PAUSED}

\* C13: with no busy line configured, playing writes one status query
\* (command 0x42) and returns TRUE exactly when the device's reply to that
\* query reports Playing (data 1), FALSE when it reports Stopped or Paused.
C13_PlayingQueriesStatus ==
    LET reply == IF resp.code = DFPLAYER_CMD_GET_STATUS THEN resp ELSE qresp
    IN  (/\ ~busy_pin /\ call.op = "playing" /\ pc = "idle"
         /\ Wrote /\ ~call.stale
         /\ reply.code = DFPLAYER_CMD_GET_STATUS
         /\ reply.data \in PlayerStatusData)
        => /\ Cardinality(WriteEvents) = 1
           /\ Written[4] = DFPLAYER_CMD_GET_STATUS
           /\ result = ReturnBool(reply.data = DFPLAYER_STATUS_PLAYING)

\* C14: set_playback_mode accepts each mode 0..3, writing command 0x08 with
\* the mode in the low data byte, and rejects every value outside 0..3.
C14_AllFourModes ==
    (call.op = "set_playback_mode")
    => IF call.a \in 0..3
       THEN /\ Wrote
            /\ Written[4] = DFPLAYER_CMD_SET_PLAYBACK_MODE
            /\ Written[6] = 0
            /\ Written[7] = call.a
       ELSE /\ ~Wrote
            /\ result.kind = "raise" /\ result.exc = "ValueError"

\* C15: every frame a public operation writes has a checksum valid for the
\* bytes transmitted: bytes 1..6 plus the big-endian value of bytes 7-8 is
\* 0 modulo 65536 (positions 2..7 and 8-9 of the sequence, which counts
\* from 1); this includes play_track with tracks above 255.
C15_ChecksumOfTransmittedBytes ==
    (Wrote /\ call.op # "_send_command")
    => (Written[2] + Written[3] + Written[4] + Written[5] + Written[6]
        + Written[7] + Written[8] * 256 + Written[9]) % 65536 = 0

\* C16: a frame that was already in the receive buffer when a command was
\* written is never taken as that command's response.
C16_NoStaleResponse ==
    (HasRead /\ call.stale) => log[3].n = 0

\* C18: with the busy line configured, playing returns a boolean at any
\* time after construction, including before the first edge.
C18_PlayingAlwaysDefined ==
    (busy_pin /\ call.op = "playing" /\ pc = "idle") => result.kind = "bool"

\* the settle delay as the claim states it: 0x4E is an ordinary command
C19_ClaimedDelay(command) ==
    IF command \in {9, 6} THEN 200
    ELSE IF command = 12 THEN 3000
    ELSE IF command \in {71, 72, 73} THEN 500
    ELSE 100

\* the settle delay with the folder file-count query 0x4E among the queries
C19_AmendedDelay(command) ==
    IF command \in {9, 6} THEN 200
    ELSE IF command = 12 THEN 3000
    ELSE IF command \in {71, 72, 73, 78} THEN 500
    ELSE 100

\* the events of a command call come in the order one 10-byte write, one
\* delay of d milliseconds, then only reads, none before the delay
C19_Order(d) ==
    /\ log[1].ev = "write" /\ log[1].n = DFPLAYER_FRAME_SIZE
    /\ pc = "sleep" <=> Len(log) = 1
    /\ Len(log) >= 2 => log[2] = SleepEv(d)
    /\ \A i \in 3..Len(log) : log[i].ev = "read"
    /\ (pc = "idle") => Len(log) >= 3

\* C19 as stated: write, one delay, read, the delay being 200 ms for 0x09
\* and 0x06, 3000 ms for 0x0C, 500 ms for 0x47/0x48/0x49 and 100 ms for
\* every other command.
C19_WriteDelayReadAsStated ==
    Len(log) >= 1 => C19_Order(C19_ClaimedDelay(call.command))

\* C19 (amended): write, one delay, read, the delay being 200 ms for 0x09
\* and 0x06, 3000 ms for 0x0C, 500 ms for 0x47/0x48/0x49 and 0x4E, and
\* 100 ms for every other command.
C19_WriteDelayRead ==
    Len(log) >= 1 => C19_Order(C19_AmendedDelay(call.command))

C19_Witness ==
    /\ call.command = 78
    /\ pc = "idle"
    /\ HasRead
    /\ log[2] = SleepEv(500)

\* C20: for every track number t in 0..9999 play_from_mp3_folder(t) writes
\* command 0x12 with t mod 256 in DATA_HIGH and t div 256 in DATA_LOW, so
\* the frame determines t and distinct track numbers give distinct frames.
C20_Mp3TrackBytes ==
    (call.op = "play_from_mp3_folder" /\ call.a \in 0..DFPLAYER_MAX_MP3_FILE)
    => /\ Wrote
       /\ Written[4] = DFPLAYER_CMD_PLAY_FROM_MP3
       /\ Written[6] = call.a % 256
       /\ Written[7] = call.a \div 256
       /\ Written[7] * 256 + Written[6] = call.a

C20_Witness ==
    /\ call.op = "play_from_mp3_folder"
    /\ call.a = 9999
    /\ Wrote
    /\ Written[6] = 15 /\ Written[7] = 39

====
